---------------------------- MODULE Spec2Model ----------------------------
(***************************************************************************)
(* Model of remote_training/remote_training.py: the launcher that fills a  *)
(* notebook template, writes kernel-metadata.json and pushes a kernel to   *)
(* the hosted notebook platform, or downloads the results of one.          *)
(*                                                                         *)
(* Python strings are sequences of one-character strings.  Python values   *)
(* that are formatted by an f-string are records [t, v]: t is the Python   *)
(* type ("none", "int", "str", "list") and v the value.                    *)
(***************************************************************************)
EXTENDS Integers, Sequences, FiniteSets, TLC

VARIABLES
    pc,        \* position of the run in main (or in a direct call of prepare_notebook)
    argv,      \* the command line, as the values parse_args reads from it
    git,       \* outcome of `git branch --show-current`: "ok" or "fail"
    args,      \* the parsed arguments (args in main)
    pipeline,  \* the local variable pipeline of main
    exc,       \* the exception that ended the run and the line that raised it
    template,  \* content of the notebook template file
    nbArgs,    \* the arguments of the call of prepare_notebook
    dirs,      \* directories that exist
    files,     \* files that exist: path -> content
    log        \* the steps with an effect outside the process, in order

vars == <<pc, argv, git, args, pipeline, exc, template, nbArgs, dirs, files, log>>

----------------------------------------------------------------------------
(* Bounds of the model *)

\* templates are built from at most MaxPieces pieces of TemplatePieces
MaxPieces == 2
\* experiment numbers on the command line are in 0..MaxExp
MaxExp == 1

----------------------------------------------------------------------------
(* Python values and their formatting *)

PyNone == [t |-> "none", v |-> <<>>]
PyStr(s) == [t |-> "str", v |-> s]
PyInt(n) == [t |-> "int", v |-> n]
PyList(xs) == [t |-> "list", v |-> xs]

Digits == <<"0", "1", "2", "3", "4", "5", "6", "7", "8", "9">>

\* str(n) for an int n >= 0
RECURSIVE IntStr(_)
IntStr(n) == IF n < 10 THEN <<Digits[n + 1]>>
             ELSE IntStr(n \div 10) \o <<Digits[(n % 10) + 1]>>

RECURSIVE Zeros(_)
Zeros(k) == IF k <= 0 THEN <<>> ELSE <<"0">> \o Zeros(k - 1)

\* f"{n:05d}" for an int n >= 0: zero-padded to a width of at least 5
Pad05d(n) == Zeros(5 - Len(IntStr(n))) \o IntStr(n)

\* sep.join(parts)
RECURSIVE Join(_, _)
Join(sep, parts) ==
    IF Len(parts) = 0 THEN <<>>
    ELSE IF Len(parts) = 1 THEN parts[1]
    ELSE parts[1] \o sep \o Join(sep, Tail(parts))

\* repr(x) of an int or of a str (a str without quote characters)
Repr(x) == IF x.t = "int" THEN IntStr(x.v)
           ELSE IF x.t = "str" THEN <<"'">> \o x.v \o <<"'">>
           ELSE <<"N", "o", "n", "e">>

\* f"{x}"
Format(x) ==
    CASE x.t = "none" -> <<"N", "o", "n", "e">>
      [] x.t = "int"  -> IntStr(x.v)
      [] x.t = "str"  -> x.v
      [] x.t = "list" -> <<"[">> \o Join(<<",", " ">>,
                             [i \in 1..Len(x.v) |-> Repr(x.v[i])]) \o <<"]">>

\* f"'{x}'"
Quoted(x) == <<"'">> \o Format(x) \o <<"'">>

----------------------------------------------------------------------------
(* str operations *)

\* the places where sub occurs in s
Occurrences(s, sub) ==
    {i \in 1..(Len(s) - Len(sub) + 1) : SubSeq(s, i, i + Len(sub) - 1) = sub}

\* sub in s
Contains(s, sub) == Occurrences(s, sub) # {}

\* s.find(sub) + 1, for a sub that occurs in s
Find(s, sub) == CHOOSE i \in Occurrences(s, sub) : \A j \in Occurrences(s, sub) : i <= j

StartsWith(s, p) == Len(s) >= Len(p) /\ SubSeq(s, 1, Len(p)) = p

\* a replacement of the first occurrence only, as s.replace(old, new, 1)
ReplaceFirst(s, old, new) ==
    IF ~Contains(s, old) THEN s
    ELSE SubSeq(s, 1, Find(s, old) - 1) \o new
         \o SubSeq(s, Find(s, old) + Len(old), Len(s))

\* s.replace(old, new): every occurrence, found from the left, none overlapping
RECURSIVE Replace(_, _, _)
Replace(s, old, new) ==
    IF ~Contains(s, old) THEN s
    ELSE SubSeq(s, 1, Find(s, old) - 1) \o new
         \o Replace(SubSeq(s, Find(s, old) + Len(old), Len(s)), old, new)

\* f.readlines(): the lines of s, each with its newline
RECURSIVE ReadLines(_)
ReadLines(s) ==
    IF Len(s) = 0 THEN <<>>
    ELSE IF ~Contains(s, <<"\n">>) THEN <<s>>
    ELSE <<SubSeq(s, 1, Find(s, <<"\n">>))>>
         \o ReadLines(SubSeq(s, Find(s, <<"\n">>) + 1, Len(s)))

\* str.lower() of one character
UpperCase == <<"A", "B", "C", "D", "E", "F", "G", "H", "I", "J", "K", "L", "M",
               "N", "O", "P", "Q", "R", "S", "T", "U", "V", "W", "X", "Y", "Z">>
LowerCase == <<"a", "b", "c", "d", "e", "f", "g", "h", "i", "j", "k", "l", "m",
               "n", "o", "p", "q", "r", "s", "t", "u", "v", "w", "x", "y", "z">>

LowerChar(c) ==
    IF \E i \in 1..Len(UpperCase) : UpperCase[i] = c
    THEN LowerCase[CHOOSE i \in 1..Len(UpperCase) : UpperCase[i] = c]
    ELSE c

\* s.lower()
Lower(s) == [i \in 1..Len(s) |-> LowerChar(s[i])]

----------------------------------------------------------------------------
(* prepare_notebook *)

ExpName == <<"e", "x", "p">>
IterationName == <<"i", "t", "e", "r", "a", "t", "i", "o", "n">>
BranchName == <<"b", "r", "a", "n", "c", "h">>
GitUserName == <<"g", "i", "t", "_", "u", "s", "e", "r">>
GitRepoName == <<"g", "i", "t", "_", "r", "e", "p", "o">>
PipelineName == <<"p", "i", "p", "e", "l", "i", "n", "e">>
OutputDirName == <<"o", "u", "t", "p", "u", "t", "_", "d", "i", "r">>
DatasetFilesName == <<"d", "a", "t", "a", "s", "e", "t", "_", "f", "i", "l", "e", "s">>

\* f"!!!{expr}!!!"
Token(expr) == <<"!", "!", "!">> \o expr \o <<"!", "!", "!">>

\* the list expressions of prepare_notebook: <<expr, expr_replace>>, in its order
Expressions(a) == <<
    <<ExpName, Format(a.exp)>>,
    <<IterationName, Format(a.iteration)>>,
    <<BranchName, Quoted(a.branch)>>,
    <<GitUserName, Quoted(a.git_user)>>,
    <<GitRepoName, Quoted(a.git_repo)>>,
    <<PipelineName, Quoted(a.pipeline)>>,
    <<OutputDirName, IF a.output_dir.t = "none" THEN <<"N", "o", "n", "e">>
                     ELSE Quoted(a.output_dir)>>,
    <<DatasetFilesName, IF a.dataset_files.t = "none" THEN <<"N", "o", "n", "e">>
                        ELSE Format(a.dataset_files)>> >>

\* the inner loop over expressions for one line: the test reads the line li as
\* it was read from the template, the replacement acts on the line as it is now
RECURSIVE ReplaceInLine(_, _, _, _)
ReplaceInLine(li, cur, exprs, k) ==
    IF k > Len(exprs) THEN cur
    ELSE ReplaceInLine(li,
                       IF Contains(li, Token(exprs[k][1]))
                       THEN Replace(cur, Token(exprs[k][1]), exprs[k][2])
                       ELSE cur,
                       exprs, k + 1)

\* the text prepare_notebook writes: every line of the template with the
\* expressions replaced, joined
NotebookText(tmpl, a) ==
    LET lines == ReadLines(tmpl)
    IN  Join(<<>>, [i \in 1..Len(lines) |->
                       ReplaceInLine(lines[i], lines[i], Expressions(a), 1)])

\* the two assertions at the head of prepare_notebook
NotebookAsserts(a) == a.git_user.t # "none" /\ a.git_repo.t # "none"


----------------------------------------------------------------------------
(* define_config and the values it reads *)

\* kaggle_users, of remote_training/__kaggle_login.py: user -> credentials
KaggleUsers == [ann |-> [username |-> <<"a", "n", "n">>, key |-> <<"k", "1">>]]

\* constants.NOTEBOOK_ID, the default of --notebook_id
NOTEBOOK_ID == <<"T", "r", "a", "i", "n">>
\* constants.GIT_USER, constants.GIT_REPO, constants.OUTPUT_FOLDER
GIT_USER == <<"g", "u">>
GIT_REPO == <<"g", "r">>
OUTPUT_FOLDER == <<"o", "u", "t">>
\* constants.KAGGLE_DATASET_LIST
KAGGLE_DATASET_LIST == << <<"d", "s">> >>

\* "_".join(f"{exp:05d}" for exp in exps)
JoinPadded(exps) == Join(<<"_">>, [i \in 1..Len(exps) |-> Pad05d(exps[i])])

DefineConfigCpuInverted(a, kaggle_user, exp_str, notebook_id) == [
    id                  |-> kaggle_user.username \o <<"/">> \o exp_str,
    title               |-> Lower(notebook_id),
    code_file           |-> notebook_id \o <<".", "i", "p", "y", "n", "b">>,
    language            |-> "python",
    kernel_type         |-> "notebook",
    is_private          |-> "true",
    enable_gpu          |-> IF a.cpu THEN "true" ELSE "false",
    enable_tpu          |-> "false",
    enable_internet     |-> "true",
    full_pipeline       |-> IF a.full THEN "true" ELSE "false",
    learning_pipeline   |-> IF a.learning THEN "true" ELSE "false",
    testing_pipeline    |-> IF a.testing THEN "true" ELSE "false",
    dataset_sources     |-> KAGGLE_DATASET_LIST,
    competition_sources |-> <<>>,
    kernel_sources      |-> <<>>,
    model_sources       |-> <<>> ]

\* define_config(args, kaggle_user, exp_str, notebook_id)
DefineConfig(a, kaggle_user, exp_str, notebook_id) == [
    id                  |-> kaggle_user.username \o <<"/">> \o exp_str,
    title               |-> Lower(notebook_id),
    code_file           |-> notebook_id \o <<".", "i", "p", "y", "n", "b">>,
    language            |-> "python",
    kernel_type         |-> "notebook",
    is_private          |-> "true",
    enable_gpu          |-> IF ~a.cpu THEN "true" ELSE "false",
    enable_tpu          |-> "false",
    enable_internet     |-> "true",
    full_pipeline       |-> IF a.full THEN "true" ELSE "false",
    learning_pipeline   |-> IF a.learning THEN "true" ELSE "false",
    testing_pipeline    |-> IF a.testing THEN "true" ELSE "false",
    dataset_sources     |-> KAGGLE_DATASET_LIST,
    competition_sources |-> <<>>,
    kernel_sources      |-> <<>>,
    model_sources       |-> <<>> ]

\* the keys of the dictionary, in the order define_config inserts them
ConfigKeys == <<"id", "title", "code_file", "language", "kernel_type",
                "is_private", "enable_gpu", "enable_tpu", "enable_internet",
                "full_pipeline", "learning_pipeline", "testing_pipeline",
                "dataset_sources", "competition_sources", "kernel_sources",
                "model_sources">>

\* json.dump(config, f, indent=4): the JSON object, its members <<name, value>>
\* in the order of the dictionary
JsonDump(config) == [i \in 1..Len(ConfigKeys) |-> <<ConfigKeys[i], config[ConfigKeys[i]]>>]

\* the value of member name of a JSON object that has it
JsonGet(doc, name) == doc[CHOOSE i \in 1..Len(doc) : doc[i][1] = name][2]

----------------------------------------------------------------------------
(* get_git_branch_name and the parser *)

\* what `git branch --show-current` prints when it succeeds
GitCurrentBranch == <<"d", "e", "v">>

GitErrorText == <<"E", "r", "r", "o", "r", ":", " ", "C", "o", "u", "l", "d", " ", "n", "o", "t", " ", "d", "e", "t", "e", "r", "m", "i", "n", "e", " ", "t", "h", "e", " ", "G", "i", "t", " ", "b", "r", "a", "n", "c", "h", " ", "n", "a", "m", "e", ".">>

\* get_git_branch_name with an except clause that returns no text
GetGitBranchNameEmptyOnError(g) == IF g = "ok" THEN GitCurrentBranch ELSE <<>>

\* get_git_branch_name(): the output of git, or the text of the except clause
\* when git exits with a failure status (CalledProcessError)
GetGitBranchName(g) == IF g = "ok" THEN GitCurrentBranch ELSE GitErrorText

\* parse_args over the parser of init_parser and get_parser: an option that is
\* absent takes its default
ParseArgs(av, g) == [
    notebook_id |-> IF av.notebook_id.t = "none" THEN NOTEBOOK_ID ELSE av.notebook_id.v,
    user        |-> av.user,
    branch      |-> IF av.branch.t = "none" THEN GetGitBranchName(g) ELSE av.branch.v,
    cpu         |-> av.cpu,
    push        |-> av.push,
    download    |-> av.download,
    full        |-> av.full,
    learning    |-> av.learning,
    testing     |-> av.testing,
    exp         |-> av.exp,
    iteration   |-> av.iteration ]

----------------------------------------------------------------------------
(* the file system and the outside calls *)

TextFile(text) == [kind |-> "text", body |-> text]
JsonFile(doc) == [kind |-> "json", body |-> doc]

\* open(path, "w") and write
WriteFile(fs, path, content) == (path :> content) @@ fs

\* one step with an effect outside the process: what was called, on what, and
\* whether it did what it was called for
Event(op, arg, ok) == [op |-> op, arg |-> arg, ok |-> ok]

\* path is dir or lies under dir
Under(path, dir) == path = dir \/ StartsWith(path, dir \o <<"/">>)

\* kernel_root, kernel_path and the paths of the two files of main
KernelRoot(uname) == <<"_", "_", "n", "b", "_">> \o uname
KernelPath(uname, exp_str) == KernelRoot(uname) \o <<"/">> \o exp_str
NotebookPath(uname, exp_str, notebook_id) ==
    KernelPath(uname, exp_str) \o <<"/">> \o notebook_id \o <<".", "i", "p", "y", "n", "b">>
MetadataPath(uname, exp_str) ==
    KernelPath(uname, exp_str) \o <<"/">> \o
    <<"k", "e", "r", "n", "e", "l", "-", "m", "e", "t", "a", "d", "a", "t", "a", ".", "j", "s", "o", "n">>
\* tmp_dir
TmpDir(exp_str, iteration_str) ==
    <<"_", "_", "t", "m", "p", "_">> \o exp_str \o <<"_">> \o iteration_str
\* the kernel the download asks for: f"{kaggle_user['username']}/{notebook_id}"
DownloadKernel(kaggle_user, notebook_id) == kaggle_user.username \o <<"/">> \o notebook_id

----------------------------------------------------------------------------
(* main: the inputs of a run *)

\* args.exp as the Python list prepare_notebook formats
PyIntList(xs) == PyList([i \in 1..Len(xs) |-> PyInt(xs[i])])

\* the template of a run of main: every expression once, over three lines
MainTemplate ==
    <<"e", "=">> \o Token(ExpName) \o <<";">> \o Token(IterationName) \o <<"\n">>
    \o Token(BranchName) \o Token(GitUserName) \o Token(GitRepoName) \o <<"\n">>
    \o Token(PipelineName) \o <<" ">> \o Token(OutputDirName) \o <<" ">>
    \o Token(DatasetFilesName)

\* the lists --exp can give: one or two numbers of 0..MaxExp
ExpLists == {<<a>> : a \in 0..MaxExp} \cup {<<a, b>> : a, b \in 0..MaxExp}
\* the lists --iteration can give
IterationLists == {<<0>>, <<2, 10>>}

\* the command lines of the model; user is a key of kaggle_users, or "" for a
\* command line without --user
CommandLines == [
    notebook_id : {PyNone, PyStr(<<"N", "b", "2">>)},
    user        : {"ann", ""},
    branch      : {PyNone, PyStr(<<"m", "a", "i", "n">>)},
    cpu         : BOOLEAN,
    push        : BOOLEAN,
    download    : BOOLEAN,
    full        : BOOLEAN,
    learning    : BOOLEAN,
    testing     : BOOLEAN,
    exp         : ExpLists,
    iteration   : IterationLists ]

NoFiles == [path \in {} |-> TextFile(<<>>)]
NoArgs == <<>>
NoException == [type |-> "", line |-> 0]

Init ==
    /\ pc = "start"
    /\ argv \in CommandLines
    /\ git \in {"ok", "fail"}
    /\ args = NoArgs
    /\ pipeline = <<>>
    /\ exc = NoException
    /\ template = MainTemplate
    /\ nbArgs = NoArgs
    /\ dirs = {}
    /\ files = NoFiles
    /\ log = <<>>

----------------------------------------------------------------------------
(* main: the steps of a run *)

ExpStr == JoinPadded(args.exp)
IterationStr == JoinPadded(args.iteration)
KaggleUser == KaggleUsers[args.user]
Uname == KaggleUser.username

\* an exception of type e leaves main from line l
Raise(e, l) == pc' = "raised" /\ exc' = [type |-> e, line |-> l]

\* lines 178-183: the parser, with the default of --branch, and parse_args
Parse ==
    /\ pc = "start"
    /\ args' = ParseArgs(argv, git)
    /\ pc' = "parsed"
    /\ UNCHANGED <<argv, git, pipeline, exc, template, nbArgs, dirs, files, log>>

\* the chain of lines 184-189 with learning tested before full
ChosenPipelineLearningFirst(a) ==
    IF a.learning THEN <<"l", "e", "a", "r", "n", "i", "n", "g">>
    ELSE IF a.full THEN <<"f", "u", "l", "l">>
    ELSE <<"t", "e", "s", "t", "i", "n", "g">>

\* the pipeline main chooses at lines 184-189
ChosenPipeline(a) ==
    IF a.full THEN <<"f", "u", "l", "l">>
    ELSE IF a.learning THEN <<"l", "e", "a", "r", "n", "i", "n", "g">>
    ELSE <<"t", "e", "s", "t", "i", "n", "g">>

SelectPipeline ==
    /\ pc = "parsed"
    /\ args.full \/ args.learning \/ args.testing
    /\ pipeline' = ChosenPipeline(args)
    /\ pc' = "selected"
    /\ UNCHANGED <<argv, git, args, exc, template, nbArgs, dirs, files, log>>

\* line 191
NoPipeline ==
    /\ pc = "parsed"
    /\ ~(args.full \/ args.learning \/ args.testing)
    /\ Raise("NotImplementedError", 191)
    /\ UNCHANGED <<argv, git, args, pipeline, template, nbArgs, dirs, files, log>>

\* line 192: kaggle_users[args.user] of a user that is no key
NoUser ==
    /\ pc = "selected"
    /\ args.user \notin DOMAIN KaggleUsers
    /\ Raise("KeyError", 192)
    /\ UNCHANGED <<argv, git, args, pipeline, template, nbArgs, dirs, files, log>>

\* lines 192-194
LoadConfig ==
    /\ pc = "selected"
    /\ args.user \in DOMAIN KaggleUsers
    /\ log' = Append(log, Event("load_config", Uname, TRUE))
    /\ pc' = "loaded"
    /\ UNCHANGED <<argv, git, args, pipeline, exc, template, nbArgs, dirs, files>>

LoadConfigFails ==
    /\ pc = "selected"
    /\ args.user \in DOMAIN KaggleUsers
    /\ Raise("Exception", 194)
    /\ UNCHANGED <<argv, git, args, pipeline, template, nbArgs, dirs, files, log>>

\* lines 197-198
MakeTmpDir ==
    /\ pc = "loaded"
    /\ args.download
    /\ dirs' = dirs \cup {TmpDir(ExpStr, IterationStr)}
    /\ log' = Append(log, Event("makedirs", TmpDir(ExpStr, IterationStr), TRUE))
    /\ pc' = "tmp_made"
    /\ UNCHANGED <<argv, git, args, pipeline, exc, template, nbArgs, files>>

MakeTmpDirFails ==
    /\ pc = "loaded"
    /\ args.download
    /\ Raise("OSError", 198)
    /\ UNCHANGED <<argv, git, args, pipeline, template, nbArgs, dirs, files, log>>

\* lines 199-201: the call returns, with output.tgz in tmp_dir
DownloadOutput ==
    /\ pc = "tmp_made"
    /\ log' = Append(log, Event("kernels_output_cli",
                                DownloadKernel(KaggleUser, args.notebook_id), TRUE))
    /\ files' = WriteFile(files,
                          TmpDir(ExpStr, IterationStr) \o <<"/">>
                            \o <<"o", "u", "t", "p", "u", "t", ".", "t", "g", "z">>,
                          TextFile(<<>>))
    /\ pc' = "downloaded"
    /\ UNCHANGED <<argv, git, args, pipeline, exc, template, nbArgs, dirs>>

\* lines 199-201: the call raises
DownloadOutputFails ==
    /\ pc = "tmp_made"
    /\ log' = Append(log, Event("kernels_output_cli",
                                DownloadKernel(KaggleUser, args.notebook_id), FALSE))
    /\ Raise("Exception", 199)
    /\ UNCHANGED <<argv, git, args, pipeline, template, nbArgs, dirs, files>>

\* lines 202-204: subprocess.run without check, the exit status of tar is not read
Extract ==
    /\ pc = "downloaded"
    /\ log' = Append(log, Event("tar", TmpDir(ExpStr, IterationStr), TRUE))
    /\ pc' = "extracted"
    /\ UNCHANGED <<argv, git, args, pipeline, exc, template, nbArgs, dirs, files>>

\* lines 202-204: tar exits with a failure status, which run does not raise
ExtractExitStatusIgnored ==
    /\ pc = "downloaded"
    /\ log' = Append(log, Event("tar", TmpDir(ExpStr, IterationStr), FALSE))
    /\ pc' = "extracted"
    /\ UNCHANGED <<argv, git, args, pipeline, exc, template, nbArgs, dirs, files>>

\* lines 202-204: tar cannot be started
ExtractFails ==
    /\ pc = "downloaded"
    /\ Raise("OSError", 202)
    /\ UNCHANGED <<argv, git, args, pipeline, template, nbArgs, dirs, files, log>>

\* a removal of what is in tmp_dir that leaves tmp_dir
RemoveTmpDirContentOnly ==
    /\ pc = "extracted"
    /\ files' = [f \in {g \in DOMAIN files : ~Under(g, TmpDir(ExpStr, IterationStr))}
                    |-> files[f]]
    /\ log' = Append(log, Event("rmtree", TmpDir(ExpStr, IterationStr), TRUE))
    /\ pc' = "done"
    /\ UNCHANGED <<argv, git, args, pipeline, exc, template, nbArgs, dirs>>

\* lines 205-206: rmtree removes tmp_dir and what is in it; main returns
RemoveTmpDir ==
    /\ pc = "extracted"
    /\ dirs' = {d \in dirs : ~Under(d, TmpDir(ExpStr, IterationStr))}
    /\ files' = [f \in {g \in DOMAIN files : ~Under(g, TmpDir(ExpStr, IterationStr))}
                    |-> files[f]]
    /\ log' = Append(log, Event("rmtree", TmpDir(ExpStr, IterationStr), TRUE))
    /\ pc' = "done"
    /\ UNCHANGED <<argv, git, args, pipeline, exc, template, nbArgs>>

\* lines 205-206: rmtree fails, ignore_errors=True drops the error; main returns
RemoveTmpDirErrorIgnored ==
    /\ pc = "extracted"
    /\ log' = Append(log, Event("rmtree", TmpDir(ExpStr, IterationStr), FALSE))
    /\ pc' = "done"
    /\ UNCHANGED <<argv, git, args, pipeline, exc, template, nbArgs, dirs, files>>

\* the launch entered without the test of args.download having left main
MakeKernelDirAnyway ==
    /\ pc \in {"loaded", "extracted"}
    /\ dirs' = dirs \cup {KernelRoot(Uname), KernelPath(Uname, ExpStr)}
    /\ log' = Append(log, Event("makedirs", KernelPath(Uname, ExpStr), TRUE))
    /\ pc' = "dir_made"
    /\ UNCHANGED <<argv, git, args, pipeline, exc, template, nbArgs, files>>

\* lines 208-210: makedirs creates kernel_root and kernel_path
MakeKernelDir ==
    /\ pc = "loaded"
    /\ ~args.download
    /\ dirs' = dirs \cup {KernelRoot(Uname), KernelPath(Uname, ExpStr)}
    /\ log' = Append(log, Event("makedirs", KernelPath(Uname, ExpStr), TRUE))
    /\ pc' = "dir_made"
    /\ UNCHANGED <<argv, git, args, pipeline, exc, template, nbArgs, files>>

MakeKernelDirFails ==
    /\ pc = "loaded"
    /\ ~args.download
    /\ Raise("OSError", 210)
    /\ UNCHANGED <<argv, git, args, pipeline, template, nbArgs, dirs, files, log>>

\* the arguments of the call of prepare_notebook at lines 213-221, with the
\* defaults of output_dir and dataset_files
NotebookCall(a, pl) == [
    exp           |-> PyIntList(a.exp),
    iteration     |-> PyIntList(a.iteration),
    branch        |-> PyStr(a.branch),
    git_user      |-> PyStr(GIT_USER),
    git_repo      |-> PyStr(GIT_REPO),
    pipeline      |-> PyStr(pl),
    output_dir    |-> PyStr(OUTPUT_FOLDER),
    dataset_files |-> PyNone ]

\* lines 211-221: prepare_notebook writes the notebook
WriteNotebook ==
    /\ pc = "dir_made"
    /\ nbArgs' = NotebookCall(args, pipeline)
    /\ NotebookAsserts(nbArgs')
    /\ files' = WriteFile(files, NotebookPath(Uname, ExpStr, args.notebook_id),
                          TextFile(NotebookText(template, nbArgs')))
    /\ log' = Append(log, Event("write_notebook",
                                NotebookPath(Uname, ExpStr, args.notebook_id), TRUE))
    /\ pc' = "nb_written"
    /\ UNCHANGED <<argv, git, args, pipeline, exc, template, dirs>>

\* lines 211-221: open of the template or of the output raises
WriteNotebookFails ==
    /\ pc = "dir_made"
    /\ nbArgs' = NotebookCall(args, pipeline)
    /\ Raise("OSError", 213)
    /\ UNCHANGED <<argv, git, args, pipeline, template, dirs, files, log>>

\* the metadata written as soon as the directory is there, before the notebook
WriteMetadataBeforeNotebook ==
    /\ pc \in {"dir_made", "nb_written"}
    /\ files' = WriteFile(files, MetadataPath(Uname, ExpStr),
                          JsonFile(JsonDump(DefineConfig(args, KaggleUser, ExpStr,
                                                         args.notebook_id))))
    /\ log' = Append(log, Event("write_metadata", MetadataPath(Uname, ExpStr), TRUE))
    /\ pc' = "meta_written"
    /\ UNCHANGED <<argv, git, args, pipeline, exc, template, nbArgs, dirs>>

\* lines 212, 222-224: the assertion, then json.dump of the config
WriteMetadata ==
    /\ pc = "nb_written"
    /\ NotebookPath(Uname, ExpStr, args.notebook_id) \in DOMAIN files
    /\ files' = WriteFile(files, MetadataPath(Uname, ExpStr),
                          JsonFile(JsonDump(DefineConfig(args, KaggleUser, ExpStr,
                                                         args.notebook_id))))
    /\ log' = Append(log, Event("write_metadata", MetadataPath(Uname, ExpStr), TRUE))
    /\ pc' = "meta_written"
    /\ UNCHANGED <<argv, git, args, pipeline, exc, template, nbArgs, dirs>>

WriteMetadataFails ==
    /\ pc = "nb_written"
    /\ Raise("OSError", 223)
    /\ UNCHANGED <<argv, git, args, pipeline, template, nbArgs, dirs, files, log>>

\* lines 225-226: the push call returns; main returns
Push ==
    /\ pc = "meta_written"
    /\ args.push
    /\ log' = Append(log, Event("kernels_push_cli", KernelPath(Uname, ExpStr), TRUE))
    /\ pc' = "done"
    /\ UNCHANGED <<argv, git, args, pipeline, exc, template, nbArgs, dirs, files>>

\* lines 225-226: the push call raises
PushFails ==
    /\ pc = "meta_written"
    /\ args.push
    /\ log' = Append(log, Event("kernels_push_cli", KernelPath(Uname, ExpStr), FALSE))
    /\ Raise("Exception", 226)
    /\ UNCHANGED <<argv, git, args, pipeline, template, nbArgs, dirs, files>>

\* line 225: no push asked for; main returns
NoPush ==
    /\ pc = "meta_written"
    /\ ~args.push
    /\ pc' = "done"
    /\ UNCHANGED <<argv, git, args, pipeline, exc, template, nbArgs, dirs, files, log>>

Next ==
    \/ Parse
    \/ SelectPipeline
    \/ NoPipeline
    \/ NoUser
    \/ LoadConfig
    \/ LoadConfigFails
    \/ MakeTmpDir
    \/ MakeTmpDirFails
    \/ DownloadOutput
    \/ DownloadOutputFails
    \/ Extract
    \/ ExtractExitStatusIgnored
    \/ ExtractFails
    \/ RemoveTmpDir
    \/ RemoveTmpDirErrorIgnored
    \/ MakeKernelDir
    \/ MakeKernelDirFails
    \/ WriteNotebookFails
    \/ WriteNotebook
    \/ WriteMetadata
    \/ WriteMetadataFails
    \/ Push
    \/ PushFails
    \/ NoPush

Spec == Init /\ [][Next]_vars

----------------------------------------------------------------------------
(* prepare_notebook called on its own *)

\* the pieces templates are built from: the eight tokens, text, a newline and
\* the tail of a token, which makes two tokens overlap
TemplatePieces ==
    {Token(ExpName), Token(IterationName), Token(BranchName), Token(GitUserName),
     Token(GitRepoName), Token(PipelineName), Token(OutputDirName),
     Token(DatasetFilesName), <<"x">>, <<"\n">>, ExpName \o <<"!", "!", "!">>}

RECURSIVE TemplatesOf(_)
TemplatesOf(k) ==
    IF k = 0 THEN {<<>>}
    ELSE {p \o t : p \in TemplatePieces, t \in TemplatesOf(k - 1)}

Templates == UNION {TemplatesOf(k) : k \in 0..MaxPieces}

\* the argument values of the calls of the model
NotebookCalls == [
    exp           : {PyInt(7), PyIntList(<<1, 2>>)},
    iteration     : {PyInt(0)},
    branch        : {PyStr(<<"b">>), PyStr(<<"!", "!", "!">>), PyStr(Token(GitUserName))},
    git_user      : {PyNone, PyStr(<<"u">>)},
    git_repo      : {PyStr(<<"r">>)},
    pipeline      : {PyStr(<<"f", "u", "l", "l">>)},
    output_dir    : {PyNone, PyStr(OUTPUT_FOLDER)},
    dataset_files : {PyNone, PyList(<<PyStr(<<"d">>)>>)} ]

\* output_nb_path of the calls of the model
OutputNbPath == <<"o", ".", "i", "p", "y", "n", "b">>

InitNb ==
    /\ pc = "nb_call"
    /\ template \in Templates
    /\ nbArgs \in NotebookCalls
    /\ argv = NoArgs
    /\ git = "ok"
    /\ args = NoArgs
    /\ pipeline = <<>>
    /\ exc = NoException
    /\ dirs = {}
    /\ files = NoFiles
    /\ log = <<>>

\* lines 107-108: one of the two assertions fails
NbAssertFails ==
    /\ pc = "nb_call"
    /\ ~NotebookAsserts(nbArgs)
    /\ pc' = "nb_raised"
    /\ exc' = [type |-> "AssertionError", line |-> 107]
    /\ UNCHANGED <<argv, git, args, pipeline, template, nbArgs, dirs, files, log>>

\* lines 109-131: the template is read, replaced and written
NbReturn ==
    /\ pc = "nb_call"
    /\ NotebookAsserts(nbArgs)
    /\ files' = WriteFile(files, OutputNbPath, TextFile(NotebookText(template, nbArgs)))
    /\ log' = Append(log, Event("write_notebook", OutputNbPath, TRUE))
    /\ pc' = "nb_returned"
    /\ UNCHANGED <<argv, git, args, pipeline, exc, template, nbArgs, dirs>>

NextNb ==
    \/ NbAssertFails
    \/ NbReturn

SpecNb == InitNb /\ [][NextNb]_vars

----------------------------------------------------------------------------
(* Properties of prepare_notebook, under SpecNb *)

ExprNames == <<ExpName, IterationName, BranchName, GitUserName, GitRepoName,
               PipelineName, OutputDirName, DatasetFilesName>>

\* the text prepare_notebook wrote
Written == files[OutputNbPath].body

\* the places of s where a token starts
TokenStarts(s) ==
    {i \in 1..Len(s) : \E k \in 1..Len(ExprNames) :
        StartsWith(SubSeq(s, i, Len(s)), Token(ExprNames[k]))}

\* the simultaneous substitution: s read once from the left, every token met
\* replaced by the value of its expression, what is put in never read again
RECURSIVE Substitute(_, _)
Substitute(s, exprs) ==
    IF TokenStarts(s) = {} THEN s
    ELSE LET i == CHOOSE x \in TokenStarts(s) : \A y \in TokenStarts(s) : x <= y
             k == CHOOSE x \in 1..Len(exprs) :
                      StartsWith(SubSeq(s, i, Len(s)), Token(exprs[x][1]))
         IN  SubSeq(s, 1, i - 1) \o exprs[k][2]
             \o Substitute(SubSeq(s, i + Len(Token(exprs[k][1])), Len(s)), exprs)

\* s holds one of the eight tokens
HasToken(s) == \E k \in 1..Len(ExprNames) : Contains(s, Token(ExprNames[k]))

\* no two tokens of s share a character: each starts where the one before it
\* has ended
TokensApart(s) ==
    \A i, j \in TokenStarts(s) : i < j =>
        \A k \in 1..Len(ExprNames) :
            StartsWith(SubSeq(s, i, Len(s)), Token(ExprNames[k]))
                => i + Len(Token(ExprNames[k])) <= j

\* C1: the file prepare_notebook writes is the simultaneous substitution of the
\* tokens of the template by the rendered values of the expressions, every
\* other character of the template unchanged.  Stated for the templates whose
\* tokens share no character, where "each occurrence of each token" is one
\* set of places.
C1_WrittenIsSimultaneousSubstitution ==
    (pc = "nb_returned" /\ TokensApart(template))
        => Written = Substitute(template, Expressions(nbArgs))

\* no rendered value of the call holds a token
NoTokenInValues(a) ==
    \A k \in 1..Len(ExprNames) : ~HasToken(Expressions(a)[k][2])

\* C10 as stated: after prepare_notebook returns, the notebook written holds
\* none of the eight tokens, whatever the template and the argument values.
C10_NoTokenLeft ==
    pc = "nb_returned" => ~HasToken(Written)

\* C10 as amended: after prepare_notebook returns, the notebook written holds
\* none of the eight tokens, for every template and all argument values none of
\* which holds the text of a token.
C10_NoTokenLeftUnlessInValue ==
    (pc = "nb_returned" /\ NoTokenInValues(nbArgs)) => ~HasToken(Written)

\* a call returned whose template had the branch token twice, a token cut by
\* another, and a branch made of the marks of a token
C10_Witness ==
    /\ pc = "nb_returned"
    /\ NoTokenInValues(nbArgs)
    /\ Cardinality(Occurrences(template, Token(BranchName))) = 2
    /\ nbArgs.branch.v = <<"!", "!", "!">>
    /\ ~HasToken(Written)

----------------------------------------------------------------------------
(* Properties of main, under Spec and FairSpec *)

\* the names of the steps logged, in order
Ops == [i \in 1..Len(log) |-> log[i].op]

\* a step of that name was taken, whether it returned or raised
Called(op) == \E i \in 1..Len(log) : log[i].op = op

IsPrefix(s, t) == Len(s) <= Len(t) /\ s = SubSeq(t, 1, Len(s))

Parsed == pc # "start"
Terminated == pc \in {"done", "raised"}

\* the JSON object in kernel-metadata.json
Metadata == files[MetadataPath(Uname, ExpStr)].body

TrueIff(text, b) == text = (IF b THEN "true" ELSE "false")

\* C2: the metadata file main writes holds the dictionary of define_config:
\* its sixteen members, id '<username>/<exp_str>', title the notebook id in
\* lower case, code_file '<notebook_id>.ipynb', enable_gpu "true" exactly when
\* cpu is not set, and each pipeline member "true" exactly when its flag is set.
C2_MetadataFields ==
    Called("write_metadata") =>
        /\ files[MetadataPath(Uname, ExpStr)].kind = "json"
        /\ [i \in 1..Len(Metadata) |-> Metadata[i][1]] = ConfigKeys
        /\ JsonGet(Metadata, "id") = KaggleUsers[args.user].username \o <<"/">>
                                        \o JoinPadded(args.exp)
        /\ Len(JsonGet(Metadata, "title")) = Len(args.notebook_id)
        /\ \A i \in 1..Len(args.notebook_id) :
              LET c == args.notebook_id[i]
                  d == JsonGet(Metadata, "title")[i]
              IN  /\ \A j \in 1..Len(UpperCase) : d # UpperCase[j]
                  /\ (\A j \in 1..Len(UpperCase) : c # UpperCase[j]) => d = c
                  /\ \A j \in 1..Len(UpperCase) : c = UpperCase[j] => d = LowerCase[j]
        /\ JsonGet(Metadata, "code_file") = args.notebook_id \o <<".", "i", "p", "y", "n", "b">>
        /\ TrueIff(JsonGet(Metadata, "enable_gpu"), ~args.cpu)
        /\ TrueIff(JsonGet(Metadata, "full_pipeline"), args.full)
        /\ TrueIff(JsonGet(Metadata, "learning_pipeline"), args.learning)
        /\ TrueIff(JsonGet(Metadata, "testing_pipeline"), args.testing)

\* a run wrote the metadata of a cpu run whose notebook id has capitals
C2_Witness ==
    /\ pc = "done"
    /\ Called("write_metadata")
    /\ args.cpu
    /\ args.notebook_id = NOTEBOOK_ID
    /\ JsonGet(Metadata, "title") # args.notebook_id
    /\ JsonGet(Metadata, "enable_gpu") = "false"

\* C3 as stated: in a run of main the download call is made if and only if the
\* download flag is set, and the push call if and only if the push flag is set
\* and the download flag is not.
C3_CallsIffFlags ==
    Terminated =>
        /\ Called("kernels_output_cli") <=> args.download
        /\ Called("kernels_push_cli") <=> (args.push /\ ~args.download)

\* C3 as amended: a download call is made only if the download flag is set
\* and a push call only if the push flag is set and the download flag is not;
\* in a run of main that returns, the download call was made if and only if
\* the download flag is set and the push call if and only if the push flag is
\* set and the download flag is not.
C3_CallsFollowFlags ==
    Parsed =>
        /\ Called("kernels_output_cli") => args.download
        /\ Called("kernels_push_cli") => (args.push /\ ~args.download)
        /\ pc = "done" =>
              /\ Called("kernels_output_cli") <=> args.download
              /\ Called("kernels_push_cli") <=> (args.push /\ ~args.download)

\* a run with --push and --download returned: it has downloaded and not pushed
C3_Witness ==
    /\ pc = "done"
    /\ args.push
    /\ args.download
    /\ Called("kernels_output_cli")
    /\ ~Called("kernels_push_cli")

\* the steps taken before an exception leaves main from a line
StepsBefore(line) ==
    CASE line \in {191, 192, 194} -> <<>>
      [] line \in {198, 210} -> <<"load_config">>
      [] line = 199 -> <<"load_config", "makedirs", "kernels_output_cli">>
      [] line = 202 -> <<"load_config", "makedirs", "kernels_output_cli">>
      [] line = 213 -> <<"load_config", "makedirs">>
      [] line = 223 -> <<"load_config", "makedirs", "write_notebook">>
      [] line = 226 -> <<"load_config", "makedirs", "write_notebook",
                         "write_metadata", "kernels_push_cli">>

LaunchSteps == <<"load_config", "makedirs", "write_notebook", "write_metadata",
                 "kernels_push_cli">>

\* the order of the steps of a launch run
LaunchOrder ==
    (Parsed /\ ~args.download) =>
        /\ IsPrefix(Ops, LaunchSteps)
        /\ Called("kernels_push_cli") => args.push
        /\ pc = "done" => Ops = (IF args.push THEN LaunchSteps
                                 ELSE SubSeq(LaunchSteps, 1, 4))
        /\ Called("makedirs") => KernelPath(Uname, ExpStr) \in dirs
        /\ (Called("load_config") /\ MetadataPath(Uname, ExpStr) \in DOMAIN files)
              => NotebookPath(Uname, ExpStr, args.notebook_id) \in DOMAIN files
        /\ Called("kernels_push_cli") =>
              /\ NotebookPath(Uname, ExpStr, args.notebook_id) \in DOMAIN files
              /\ MetadataPath(Uname, ExpStr) \in DOMAIN files

\* the most steps a run at p can still take
StepsLeft(p) ==
    CASE p = "start" -> 7
      [] p = "parsed" -> 6
      [] p = "selected" -> 5
      [] p = "loaded" -> 4
      [] p \in {"tmp_made", "dir_made"} -> 3
      [] p \in {"downloaded", "nb_written"} -> 2
      [] p \in {"extracted", "meta_written"} -> 1
      [] p \in {"done", "raised"} -> 0

\* C5: a launch run takes its steps in one order, each at most once:
\* credentials, kernel directory, notebook, metadata and, only with the push
\* flag, the push; the metadata is never written before the notebook is there,
\* the push never made before both files are; and the run ends: a run that has
\* not ended has a step to take, and every step leaves fewer steps to take.
C5_LaunchIsLinearAndEnds ==
    /\ []LaunchOrder
    /\ [](Terminated \/ ENABLED Next)
    /\ [][StepsLeft(pc') < StepsLeft(pc)]_vars

\* a launch run with --push returned after its five steps
C5_Witness ==
    /\ pc = "done"
    /\ ~args.download
    /\ args.push
    /\ Ops = LaunchSteps

\* C6: with none of full, learning and testing set, main raises
\* NotImplementedError before any effect: no credentials loaded, no directory,
\* no file, no download, no push.  With more than one set, the pipeline is the
\* first set one of full, learning, testing.
C6_NoPipelineRaisesFirst ==
    /\ pc \in {"start", "parsed"} => (log = <<>> /\ dirs = {} /\ DOMAIN files = {})
    /\ (Parsed /\ pc # "parsed" /\ ~(args.full \/ args.learning \/ args.testing)) =>
          /\ pc = "raised"
          /\ exc = [type |-> "NotImplementedError", line |-> 191]
          /\ log = <<>>
          /\ dirs = {}
          /\ DOMAIN files = {}
    /\ (Parsed /\ pc # "parsed" /\ (args.full \/ args.learning \/ args.testing)) =>
          /\ exc.type # "NotImplementedError"
          /\ args.full => pipeline = <<"f", "u", "l", "l">>
          /\ (~args.full /\ args.learning)
                => pipeline = <<"l", "e", "a", "r", "n", "i", "n", "g">>
          /\ (~args.full /\ ~args.learning)
                => pipeline = <<"t", "e", "s", "t", "i", "n", "g">>
          /\ Called("write_notebook") => nbArgs.pipeline = PyStr(pipeline)

\* a run with --download and --push and no pipeline flag has raised
C6_Witness ==
    /\ pc = "raised"
    /\ exc.type = "NotImplementedError"
    /\ args.download
    /\ args.push
    /\ args.user = "ann"
    /\ log = <<>>

\* the parts of C7 that do not depend on the removal
DownloadRun ==
    (Parsed /\ args.download) =>
        /\ Called("kernels_output_cli") =>
              /\ Len(log) >= 3
              /\ log[2] = Event("makedirs", TmpDir(ExpStr, IterationStr), TRUE)
              /\ log[3].op = "kernels_output_cli"
        /\ pc = "tmp_made" => TmpDir(ExpStr, IterationStr) \in dirs
        /\ ~Called("write_notebook")
        /\ ~Called("write_metadata")
        /\ \A d \in dirs : ~StartsWith(d, <<"_", "_", "n", "b", "_">>)
        /\ \A f \in DOMAIN files : Under(f, TmpDir(ExpStr, IterationStr))
        /\ (pc = "raised" /\ exc.line = 199) => TmpDir(ExpStr, IterationStr) \in dirs

PipelineMember(pl) ==
    CASE pl = <<"f", "u", "l", "l">> -> "full_pipeline"
      [] pl = <<"l", "e", "a", "r", "n", "i", "n", "g">> -> "learning_pipeline"
      [] pl = <<"t", "e", "s", "t", "i", "n", "g">> -> "testing_pipeline"

\* C8: in a launch run the pipeline members of the metadata agree with the
\* pipeline put in the notebook: the member of the chosen pipeline is "true",
\* the two others are "false".
C8_MetadataAgreesWithPipeline ==
    Called("write_metadata") =>
        \A m \in {"full_pipeline", "learning_pipeline", "testing_pipeline"} :
            TrueIff(JsonGet(Metadata, m), m = PipelineMember(nbArgs.pipeline.v))

\* C9: the kernel a download run asks for is the id a launch run of the same
\* user, experiments and notebook id writes in its metadata.
C9_DownloadAsksForWrittenId ==
    \A i \in 1..Len(log) :
        log[i].op = "kernels_output_cli" =>
            log[i].arg = DefineConfig(args, KaggleUser, ExpStr, args.notebook_id).id

============================================================================
